---- MODULE Spec2Model ----
(***************************************************************************)
(* PE/COFF header parsing (src/pe/header.rs) and the characteristics       *)
(* bitfield (src/pe/characteristic.rs) of goblin.                          *)
(*                                                                         *)
(* Spec      : DosHeader::parse, CoffHeader::parse and Header::parse run   *)
(*             field by field over a byte buffer drawn in Init.            *)
(* SpecFlags : has_flag, is_dll, is_exe and validate applied to every      *)
(*             16-bit characteristics value.                               *)
(*                                                                         *)
(* Integers are TLC integers (below 2^31): a 32-bit field of a generated   *)
(* buffer has a most significant byte below 0x80.                          *)
(***************************************************************************)
EXTENDS Integers, Sequences, FiniteSets, TLC

VARIABLES
  bytes,            \* the caller's buffer, &[u8]
  entry,            \* the function the caller invoked
  pc,               \* position inside it
  offset,           \* the cursor, *offset of CoffHeader::parse / `offset` of Header::parse
  start,            \* the value of the cursor when CoffHeader::parse was entered
  field,            \* number of COFF fields read so far
  dos_header,       \* signature / pe_pointer locals of DosHeader::parse
  coff_header,      \* `coff` of CoffHeader::parse
  optional_header,  \* Option<OptionalHeader>: <<>> is None, <<h>> is Some(h)
  reads,            \* every read attempted on the buffer, in order
  result,           \* what the invoked function returned
  characteristics,  \* argument of has_flag / is_dll / is_exe / validate
  flag_op,          \* the characteristics operation applied
  flag_arg,         \* `flag` of has_flag, 0 when none
  is_image,         \* `is_image` of validate
  error_messages,   \* `error_messages` of validate
  flag_result       \* what the characteristics operation returned

vars == <<bytes, entry, pc, offset, start, field, dos_header, coff_header,
          optional_header, reads, result, characteristics, flag_op, flag_arg,
          is_image, error_messages, flag_result>>

parseVars == <<bytes, entry, pc, offset, start, field, dos_header, coff_header,
               optional_header, reads, result>>

flagVars == <<characteristics, flag_op, flag_arg, is_image, error_messages, flag_result>>

-----------------------------------------------------------------------------
(* Bounds of the model *)

\* longest generated buffer
MaxLen == 96

-----------------------------------------------------------------------------
(* Program constants, header.rs *)

\* 0x5a4d
DOS_MAGIC == 23117
\* 0x3c
PE_POINTER_OFFSET == 60
SIZEOF_COFF_HEADER == 24
\* 0x00004550
COFF_MAGIC == 17744
\* 0x14c
COFF_MACHINE_X86 == 332

\* tests::CRSS_HEADER, the 688-byte sample
CRSS_HEADER ==
  <<
     77, 90, 144, 0, 3, 0, 0, 0, 4, 0, 0, 0, 255, 255, 0, 0,
     184, 0, 0, 0, 0, 0, 0, 0, 64, 0, 0, 0, 0, 0, 0, 0,
     0, 0, 0, 0, 0, 0, 0, 0, 0, 0, 0, 0, 0, 0, 0, 0,
     0, 0, 0, 0, 0, 0, 0, 0, 0, 0, 0, 0, 208, 0, 0, 0,
     14, 31, 186, 14, 0, 180, 9, 205, 33, 184, 1, 76, 205, 33, 84, 104,
     105, 115, 32, 112, 114, 111, 103, 114, 97, 109, 32, 99, 97, 110, 110, 111,
     116, 32, 98, 101, 32, 114, 117, 110, 32, 105, 110, 32, 68, 79, 83, 32,
     109, 111, 100, 101, 46, 13, 13, 10, 36, 0, 0, 0, 0, 0, 0, 0,
     170, 74, 195, 235, 238, 43, 173, 184, 238, 43, 173, 184, 238, 43, 173, 184,
     238, 43, 172, 184, 254, 43, 173, 184, 51, 212, 102, 184, 235, 43, 173, 184,
     51, 212, 99, 184, 234, 43, 173, 184, 51, 212, 122, 184, 237, 43, 173, 184,
     51, 212, 100, 184, 239, 43, 173, 184, 51, 212, 97, 184, 239, 43, 173, 184,
     82, 105, 99, 104, 238, 43, 173, 184, 0, 0, 0, 0, 0, 0, 0, 0,
     80, 69, 0, 0, 76, 1, 5, 0, 217, 143, 21, 82, 0, 0, 0, 0,
     0, 0, 0, 0, 224, 0, 2, 1, 11, 1, 11, 0, 0, 8, 0, 0,
     0, 16, 0, 0, 0, 0, 0, 0, 16, 17, 0, 0, 0, 16, 0, 0,
     0, 32, 0, 0, 0, 0, 64, 0, 0, 16, 0, 0, 0, 2, 0, 0,
     6, 0, 3, 0, 6, 0, 3, 0, 6, 0, 3, 0, 0, 0, 0, 0,
     0, 96, 0, 0, 0, 4, 0, 0, 228, 171, 0, 0, 1, 0, 64, 5,
     0, 0, 4, 0, 0, 48, 0, 0, 0, 0, 16, 0, 0, 16, 0, 0,
     0, 0, 0, 0, 16, 0, 0, 0, 0, 0, 0, 0, 0, 0, 0, 0,
     60, 48, 0, 0, 60, 0, 0, 0, 0, 64, 0, 0, 0, 8, 0, 0,
     0, 0, 0, 0, 0, 0, 0, 0, 0, 26, 0, 0, 184, 34, 0, 0,
     0, 80, 0, 0, 56, 0, 0, 0, 16, 16, 0, 0, 56, 0, 0, 0,
     0, 0, 0, 0, 0, 0, 0, 0, 0, 0, 0, 0, 0, 0, 0, 0,
     0, 0, 0, 0, 0, 0, 0, 0, 104, 16, 0, 0, 92, 0, 0, 0,
     0, 0, 0, 0, 0, 0, 0, 0, 0, 48, 0, 0, 60, 0, 0, 0,
     0, 0, 0, 0, 0, 0, 0, 0, 0, 0, 0, 0, 0, 0, 0, 0,
     0, 0, 0, 0, 0, 0, 0, 0, 46, 116, 101, 120, 116, 0, 0, 0,
     36, 6, 0, 0, 0, 16, 0, 0, 0, 8, 0, 0, 0, 4, 0, 0,
     0, 0, 0, 0, 0, 0, 0, 0, 0, 0, 0, 0, 32, 0, 0, 96,
     46, 100, 97, 116, 97, 0, 0, 0, 60, 3, 0, 0, 0, 32, 0, 0,
     0, 2, 0, 0, 0, 12, 0, 0, 0, 0, 0, 0, 0, 0, 0, 0,
     0, 0, 0, 0, 64, 0, 0, 192, 46, 105, 100, 97, 116, 97, 0, 0,
     248, 1, 0, 0, 0, 48, 0, 0, 0, 2, 0, 0, 0, 14, 0, 0,
     0, 0, 0, 0, 0, 0, 0, 0, 0, 0, 0, 0, 64, 0, 0, 64,
     46, 114, 115, 114, 99, 0, 0, 0, 0, 8, 0, 0, 0, 64, 0, 0,
     0, 8, 0, 0, 0, 16, 0, 0, 0, 0, 0, 0, 0, 0, 0, 0,
     0, 0, 0, 0, 64, 0, 0, 66, 46, 114, 101, 108, 111, 99, 0, 0,
     134, 1, 0, 0, 0, 80, 0, 0, 0, 2, 0, 0, 0, 24, 0, 0,
     0, 0, 0, 0, 0, 0, 0, 0, 0, 0, 0, 0, 64, 0, 0, 66,
     0, 0, 0, 0, 0, 0, 0, 0, 0, 0, 0, 0, 0, 0, 0, 0,
     0, 0, 0, 0, 0, 0, 0, 0, 0, 0, 0, 0, 0, 0, 0, 0
  >>
-----------------------------------------------------------------------------
(* scroll's Pread on &[u8], as header.rs uses it *)

\* pread_with / gread_with succeed iff the `w` bytes at `off` lie inside the buffer
\* (BadOffset when off >= len, TooBig when fewer than w bytes remain)
Fits(b, off, w) == Len(b) >= w /\ off <= Len(b) - w

\* a read that keeps the low 16 bits only
LittleEndian16(b, off, w) == b[off + 1] + 256 * b[off + 2]

\* the little-endian value of the `w` bytes at `off` (scroll::LE)
RECURSIVE LittleEndian(_, _, _)
LittleEndian(b, off, w) ==
  IF w = 0 THEN 0 ELSE b[off + 1] + 256 * LittleEndian(b, off + 1, w - 1)

\* format!("{:#x}", n)
HexDigit(n) ==
  <<"0", "1", "2", "3", "4", "5", "6", "7", "8", "9", "a", "b", "c", "d", "e", "f">>[n + 1]
RECURSIVE HexDigits(_)
HexDigits(n) ==
  IF n < 16 THEN HexDigit(n) ELSE HexDigits(n \div 16) \o HexDigit(n % 16)
LowerHex(n) == "0x" \o HexDigits(n)

\* error::Error::Malformed(format!("cannot parse {} (offset {:#x})", ..))
CannotParse(what, off) ==
  [tag |-> "Malformed", msg |-> "cannot parse " \o what \o " (offset " \o LowerHex(off) \o ")",
   value |-> <<>>]

Ok(v) == [tag |-> "Ok", msg |-> "", value |-> <<v>>]
NoResult == [tag |-> "none", msg |-> "", value |-> <<>>]

Read(what, off, w) == [what |-> what, at |-> off, width |-> w]

-----------------------------------------------------------------------------
(* DosHeader and CoffHeader *)

DosHeaderDefault == [signature |-> 0, pe_pointer |-> 0]

CoffHeaderDefault ==
  [signature |-> 0, machine |-> 0, number_of_sections |-> 0, time_date_stamp |-> 0,
   pointer_to_symbol_table |-> 0, number_of_symbol_table |-> 0,
   size_of_optional_header |-> 0, characteristics |-> 0]

\* the eight reads with machine read before signature
CoffFieldsMachineFirst ==
  << [name |-> "machine",                 what |-> "COFF machine",                 width |-> 2],
     [name |-> "signature",               what |-> "COFF signature",               width |-> 4],
     [name |-> "number_of_sections",      what |-> "COFF number of sections",      width |-> 2],
     [name |-> "time_date_stamp",         what |-> "COFF time date stamp",         width |-> 4],
     [name |-> "pointer_to_symbol_table", what |-> "COFF pointer to symbol table", width |-> 4],
     [name |-> "number_of_symbol_table",  what |-> "COFF number of symbol",        width |-> 4],
     [name |-> "size_of_optional_header", what |-> "COFF size of optional header", width |-> 2],
     [name |-> "characteristics",         what |-> "COFF characteristics",         width |-> 2] >>

\* header.rs 54-69: the eight reads of CoffHeader::parse, in program order
CoffFields ==
  << [name |-> "signature",               what |-> "COFF signature",               width |-> 4],
     [name |-> "machine",                 what |-> "COFF machine",                 width |-> 2],
     [name |-> "number_of_sections",      what |-> "COFF number of sections",      width |-> 2],
     [name |-> "time_date_stamp",         what |-> "COFF time date stamp",         width |-> 4],
     [name |-> "pointer_to_symbol_table", what |-> "COFF pointer to symbol table", width |-> 4],
     [name |-> "number_of_symbol_table",  what |-> "COFF number of symbol",        width |-> 4],
     [name |-> "size_of_optional_header", what |-> "COFF size of optional header", width |-> 2],
     [name |-> "characteristics",         what |-> "COFF characteristics",         width |-> 2] >>

\* the external optional-header parser, (buffer, offset) -> Result<OptionalHeader>:
\* whether it accepts is an input of the model
OptionalHeaderParse(b, off, accepts) ==
  IF accepts
    THEN [tag |-> "Ok", msg |-> "", value |-> << [at |-> off] >>]
    ELSE [tag |-> "OptionalHeaderError", msg |-> "optional header", value |-> <<>>]

-----------------------------------------------------------------------------
(* Buffers the caller may pass *)

\* byte `k` (0 = least significant) of n
ByteOf(n, k) == (n \div (256 ^ k)) % 256

\* filler: varies with the position, below 0x80
Fill(p) == (p * 37 + 11) % 128

SigChoices ==
  { [dos |-> DOS_MAGIC, coff |-> COFF_MAGIC],
    [dos |-> 0,         coff |-> 0],
    [dos |-> 65535,     coff |-> 305419896] }

\* pe_pointer values: inside the DOS stub, right after it, beyond any buffer, wide
PtrChoices == {0, 40, 64, 68, 260, 2130706496}

\* size_of_optional_header values
OptSizeChoices == {0, 1, 256}

LenChoices == (0 .. MaxLen) \cup {300}

MkBuf(len, sig, ptr, optsize) ==
  [i \in 1 .. len |->
     LET p == i - 1 IN
     IF p >= PE_POINTER_OFFSET /\ p < PE_POINTER_OFFSET + 4
       THEN ByteOf(ptr, p - PE_POINTER_OFFSET)
     ELSE IF p - 20 >= ptr /\ p - 22 < ptr THEN ByteOf(optsize, p - 20 - ptr)
     ELSE IF p < 2 THEN ByteOf(sig.dos, p)
     ELSE IF p >= ptr /\ p - 4 < ptr THEN ByteOf(sig.coff, p - ptr)
     ELSE Fill(p)]

Buffers ==
  { MkBuf(len, sig, ptr, optsize) :
      len \in LenChoices, sig \in SigChoices, ptr \in PtrChoices, optsize \in OptSizeChoices }
  \cup {CRSS_HEADER}

\* starting offsets a caller hands to CoffHeader::parse
CoffStarts == {0, 4, 72}

-----------------------------------------------------------------------------
(* Spec: the parsers *)

NoFlagResult == [tag |-> "none", msg |-> "", bool |-> FALSE]

FlagsIdle ==
  /\ characteristics = 0
  /\ flag_op = "none"
  /\ flag_arg = 0
  /\ is_image = FALSE
  /\ error_messages = <<>>
  /\ flag_result = NoFlagResult

ParseIdle ==
  /\ entry = "none"
  /\ pc = "idle"
  /\ offset = 0
  /\ start = 0
  /\ field = 0
  /\ dos_header = DosHeaderDefault
  /\ coff_header = CoffHeaderDefault
  /\ optional_header = <<>>
  /\ reads = <<>>
  /\ result = NoResult

Init ==
  /\ bytes \in Buffers
  /\ ParseIdle
  /\ FlagsIdle

\* an error wrapped on its way out
TryWrapped(r) == [r EXCEPT !.msg = "cannot parse header: " \o r.msg]

\* header.rs 83, 85, 88: `?` on a Result whose error already is error::Error
Try(r) == r

\* the error a failing step returns to the caller of the invoked function
Fail(e) == IF entry = "Header" THEN Try(e) ELSE e

CallDosHeaderParse ==
  /\ pc = "idle"
  /\ entry' = "DosHeader"
  /\ pc' = "dos_signature"
  /\ UNCHANGED flagVars
  /\ UNCHANGED <<bytes, offset, start, field, dos_header, coff_header, optional_header,
                 reads, result>>

CallHeaderParse ==
  /\ pc = "idle"
  /\ entry' = "Header"
  /\ pc' = "dos_signature"
  /\ UNCHANGED flagVars
  /\ UNCHANGED <<bytes, offset, start, field, dos_header, coff_header, optional_header,
                 reads, result>>

CallCoffHeaderParse(s) ==
  /\ pc = "idle"
  /\ entry' = "CoffHeader"
  /\ offset' = s
  /\ start' = s
  /\ coff_header' = CoffHeaderDefault
  /\ field' = 0
  /\ pc' = "coff"
  /\ UNCHANGED flagVars
  /\ UNCHANGED <<bytes, dos_header, optional_header, reads, result>>

\* DosReadSignature with the magic number enforced
DosReadSignatureChecked ==
  /\ pc = "dos_signature"
  /\ reads' = Append(reads, Read("DOS signature", 0, 2))
  /\ IF Fits(bytes, 0, 2) /\ LittleEndian(bytes, 0, 2) = DOS_MAGIC
       THEN /\ dos_header' = [dos_header EXCEPT !.signature = LittleEndian(bytes, 0, 2)]
            /\ pc' = "dos_pe_pointer"
            /\ UNCHANGED result
       ELSE /\ result' = Fail(CannotParse("DOS signature", 0))
            /\ pc' = "done"
            /\ UNCHANGED dos_header
  /\ UNCHANGED flagVars
  /\ UNCHANGED <<bytes, entry, offset, start, field, coff_header, optional_header>>

\* header.rs 21-22
DosReadSignature ==
  /\ pc = "dos_signature"
  /\ reads' = Append(reads, Read("DOS signature", 0, 2))
  /\ IF Fits(bytes, 0, 2)
       THEN /\ dos_header' = [dos_header EXCEPT !.signature = LittleEndian(bytes, 0, 2)]
            /\ pc' = "dos_pe_pointer"
            /\ UNCHANGED result
       ELSE /\ result' = Fail(CannotParse("DOS signature", 0))
            /\ pc' = "done"
            /\ UNCHANGED dos_header
  /\ UNCHANGED flagVars
  /\ UNCHANGED <<bytes, entry, offset, start, field, coff_header, optional_header>>

\* header.rs 23-24
DosReadPePointer ==
  /\ pc = "dos_pe_pointer"
  /\ reads' = Append(reads, Read("PE header pointer", PE_POINTER_OFFSET, 4))
  /\ IF Fits(bytes, PE_POINTER_OFFSET, 4)
       THEN /\ dos_header' =
                 [dos_header EXCEPT !.pe_pointer = LittleEndian(bytes, PE_POINTER_OFFSET, 4)]
            /\ pc' = "dos_return"
            /\ UNCHANGED result
       ELSE /\ result' = Fail(CannotParse("PE header pointer", PE_POINTER_OFFSET))
            /\ pc' = "done"
            /\ UNCHANGED dos_header
  /\ UNCHANGED flagVars
  /\ UNCHANGED <<bytes, entry, offset, start, field, coff_header, optional_header>>

\* header.rs 25, DosHeader::parse called directly
DosHeaderReturn ==
  /\ pc = "dos_return"
  /\ entry = "DosHeader"
  /\ result' = Ok(dos_header)
  /\ pc' = "done"
  /\ UNCHANGED flagVars
  /\ UNCHANGED <<bytes, entry, offset, start, field, dos_header, coff_header,
                 optional_header, reads>>

\* HeaderEnterCoff continuing right behind the PE pointer instead of following it
HeaderEnterCoffSequential ==
  /\ pc = "dos_return"
  /\ entry = "Header"
  /\ offset' = PE_POINTER_OFFSET + 4
  /\ start' = PE_POINTER_OFFSET + 4
  /\ coff_header' = CoffHeaderDefault
  /\ field' = 0
  /\ pc' = "coff"
  /\ UNCHANGED flagVars
  /\ UNCHANGED <<bytes, entry, dos_header, optional_header, reads, result>>

\* header.rs 84-85 and 53: Header::parse moves on to the COFF header
HeaderEnterCoff ==
  /\ pc = "dos_return"
  /\ entry = "Header"
  /\ offset' = dos_header.pe_pointer
  /\ start' = dos_header.pe_pointer
  /\ coff_header' = CoffHeaderDefault
  /\ field' = 0
  /\ pc' = "coff"
  /\ UNCHANGED flagVars
  /\ UNCHANGED <<bytes, entry, dos_header, optional_header, reads, result>>

\* header.rs 54-69: one gread_with
CoffReadField ==
  /\ pc = "coff"
  /\ field < Len(CoffFields)
  /\ LET f == CoffFields[field + 1] IN
       /\ reads' = Append(reads, Read(f.what, offset, f.width))
       /\ IF Fits(bytes, offset, f.width)
            THEN /\ coff_header' =
                      [coff_header EXCEPT ![f.name] = LittleEndian(bytes, offset, f.width)]
                 /\ offset' = offset + f.width
                 /\ field' = field + 1
                 /\ UNCHANGED <<pc, result>>
            ELSE /\ result' = Fail(CannotParse(f.what, offset))
                 /\ pc' = "done"
                 /\ UNCHANGED <<coff_header, offset, field>>
  /\ UNCHANGED flagVars
  /\ UNCHANGED <<bytes, entry, start, dos_header, optional_header>>

\* header.rs 70, CoffHeader::parse called directly
CoffHeaderReturn ==
  /\ pc = "coff"
  /\ field = Len(CoffFields)
  /\ entry = "CoffHeader"
  /\ result' = Ok(coff_header)
  /\ pc' = "done"
  /\ UNCHANGED flagVars
  /\ UNCHANGED <<bytes, entry, offset, start, field, dos_header, coff_header,
                 optional_header, reads>>

HeaderValue(opt) ==
  [dos_header |-> dos_header, coff_header |-> coff_header, optional_header |-> opt]

\* the optional-header parser called whatever the size field says
WantsOptionalAlways(coff) == TRUE

\* header.rs 87: whether Header::parse hands over to the optional-header parser
WantsOptional(coff) == coff.size_of_optional_header > 0

\* header.rs 86-91, size_of_optional_header > 0
HeaderParseOptional(accepts) ==
  /\ pc = "coff"
  /\ field = Len(CoffFields)
  /\ entry = "Header"
  /\ WantsOptional(coff_header)
  /\ reads' = Append(reads, Read("optional header", offset, 0))
  /\ LET r == OptionalHeaderParse(bytes, offset, accepts) IN
       IF r.tag = "Ok"
         THEN /\ optional_header' = r.value
              /\ result' = Ok(HeaderValue(r.value))
         ELSE /\ result' = Try(r)
              /\ UNCHANGED optional_header
  /\ pc' = "done"
  /\ UNCHANGED flagVars
  /\ UNCHANGED <<bytes, entry, offset, start, field, dos_header, coff_header>>

\* header.rs 86-91, size_of_optional_header = 0
HeaderNoOptional ==
  /\ pc = "coff"
  /\ field = Len(CoffFields)
  /\ entry = "Header"
  /\ ~WantsOptional(coff_header)
  /\ optional_header' = <<>>
  /\ result' = Ok(HeaderValue(<<>>))
  /\ pc' = "done"
  /\ UNCHANGED flagVars
  /\ UNCHANGED <<bytes, entry, offset, start, field, dos_header, coff_header, reads>>

Next ==
  \/ CallDosHeaderParse
  \/ CallHeaderParse
  \/ \E s \in CoffStarts : CallCoffHeaderParse(s)
  \/ DosReadSignature
  \/ DosReadPePointer
  \/ DosHeaderReturn
  \/ HeaderEnterCoff
  \/ CoffReadField
  \/ CoffHeaderReturn
  \/ \E accepts \in BOOLEAN : HeaderParseOptional(accepts)
  \/ HeaderNoOptional

Spec == Init /\ [][Next]_vars

-----------------------------------------------------------------------------
(* characteristic.rs *)

\* largest u16
U16_MAX == 65535

\* 0x0001
IMAGE_FILE_RELOCS_STRIPPED == 1
\* 0x0002
IMAGE_FILE_EXECUTABLE_IMAGE == 2
\* 0x0004
IMAGE_FILE_LINE_NUMS_STRIPPED == 4
\* 0x0008
IMAGE_FILE_LOCAL_SYMS_STRIPPED == 8
\* 0x0010
IMAGE_FILE_AGGRESSIVE_WS_TRIM == 16
\* 0x0020
IMAGE_FILE_LARGE_ADDRESS_AWARE == 32
\* 0x0040
RESERVED == 64
\* 0x0080
IMAGE_FILE_BYTES_REVERSED_LO == 128
\* 0x0100
IMAGE_FILE_32BIT_MACHINE == 256
\* 0x0200
IMAGE_FILE_DEBUG_STRIPPED == 512
\* 0x0400
IMAGE_FILE_REMOVABLE_RUN_FROM_SWAP == 1024
\* 0x0800
IMAGE_FILE_NET_RUN_FROM_SWAP == 2048
\* 0x1000
IMAGE_FILE_SYSTEM == 4096
\* 0x2000
IMAGE_FILE_DLL == 8192
\* 0x4000
IMAGE_FILE_UP_SYSTEM_ONLY == 16384
\* 0x8000
IMAGE_FILE_BYTES_REVERSED_HI == 32768

FlagConstants ==
  { IMAGE_FILE_RELOCS_STRIPPED, IMAGE_FILE_EXECUTABLE_IMAGE, IMAGE_FILE_LINE_NUMS_STRIPPED,
    IMAGE_FILE_LOCAL_SYMS_STRIPPED, IMAGE_FILE_AGGRESSIVE_WS_TRIM,
    IMAGE_FILE_LARGE_ADDRESS_AWARE, RESERVED, IMAGE_FILE_BYTES_REVERSED_LO,
    IMAGE_FILE_32BIT_MACHINE, IMAGE_FILE_DEBUG_STRIPPED, IMAGE_FILE_REMOVABLE_RUN_FROM_SWAP,
    IMAGE_FILE_NET_RUN_FROM_SWAP, IMAGE_FILE_SYSTEM, IMAGE_FILE_DLL,
    IMAGE_FILE_UP_SYSTEM_ONLY, IMAGE_FILE_BYTES_REVERSED_HI }

\* a & b on unsigned integers
RECURSIVE BitAnd(_, _)
BitAnd(a, b) ==
  IF a = 0 \/ b = 0 THEN 0
  ELSE (a % 2) * (b % 2) + 2 * BitAnd(a \div 2, b \div 2)

\* the comparison made against the value instead of the flag
has_flag_subset(c, flag) == BitAnd(c, flag) = c

\* characteristic.rs 94-96
has_flag(c, flag) == BitAnd(c, flag) = flag

\* is_dll testing the neighbouring constant
is_dll_system(c) == has_flag(c, IMAGE_FILE_SYSTEM)

\* characteristic.rs 98-100
is_dll(c) == has_flag(c, IMAGE_FILE_DLL)

\* characteristic.rs 102-104
is_exe(c) == has_flag(c, IMAGE_FILE_EXECUTABLE_IMAGE)

\* `if cond { error_messages.push(msg) }`
PushIf(v, cond, msg) == IF cond THEN Append(v, msg) ELSE v

\* the image-only rules applied whatever is_image says
ContextRulesNoElse(c, image) ==
  PushIf(PushIf(PushIf(<<>>, image /\ ~has_flag(c, IMAGE_FILE_EXECUTABLE_IMAGE),
                       "If IMAGE_FILE_EXECUTABLE_IMAGE is not set, it indicates a linker error."),
                has_flag(c, IMAGE_FILE_RELOCS_STRIPPED),
                "IMAGE_FILE_RELOCS_STRIPPED is image only."),
         has_flag(c, IMAGE_FILE_EXECUTABLE_IMAGE),
         "IMAGE_FILE_EXECUTABLE_IMAGE is image only.")

\* characteristic.rs 111-124: error_messages after the rules that depend on is_image
ContextRules(c, image) ==
  IF image
    THEN PushIf(<<>>, ~has_flag(c, IMAGE_FILE_EXECUTABLE_IMAGE),
                "If IMAGE_FILE_EXECUTABLE_IMAGE is not set, it indicates a linker error.")
    ELSE PushIf(PushIf(<<>>, has_flag(c, IMAGE_FILE_RELOCS_STRIPPED),
                       "IMAGE_FILE_RELOCS_STRIPPED is image only."),
                has_flag(c, IMAGE_FILE_EXECUTABLE_IMAGE),
                "IMAGE_FILE_EXECUTABLE_IMAGE is image only.")

\* the deprecated-bit rules with BYTES_REVERSED_HI tested before BYTES_REVERSED_LO
DeprecatedRulesHiFirst(m1, c) ==
  LET m2 == PushIf(m1, has_flag(c, IMAGE_FILE_LINE_NUMS_STRIPPED),
                   "IMAGE_FILE_LINE_NUMS_STRIPPED is deprecated and should be zero.")
      m3 == PushIf(m2, has_flag(c, IMAGE_FILE_LOCAL_SYMS_STRIPPED),
                   "IMAGE_FILE_LOCAL_SYMS_STRIPPED is deprecated and should be zero.")
      m4 == PushIf(m3, has_flag(c, IMAGE_FILE_AGGRESSIVE_WS_TRIM),
                   "IMAGE_FILE_AGGRESSIVE_WS_TRIM is deprecated and must be zero.")
      m5 == PushIf(m4, has_flag(c, IMAGE_FILE_BYTES_REVERSED_HI),
                   "IMAGE_FILE_BYTES_REVERSED_HI is deprecated and should be zero.")
      m6 == PushIf(m5, has_flag(c, IMAGE_FILE_BYTES_REVERSED_LO),
                   "IMAGE_FILE_BYTES_REVERSED_LO is deprecated and should be zero.")
  IN  m6

\* characteristic.rs 125-139: the rules that apply whatever is_image says
DeprecatedRules(m1, c) ==
  LET m2 == PushIf(m1, has_flag(c, IMAGE_FILE_LINE_NUMS_STRIPPED),
                   "IMAGE_FILE_LINE_NUMS_STRIPPED is deprecated and should be zero.")
      m3 == PushIf(m2, has_flag(c, IMAGE_FILE_LOCAL_SYMS_STRIPPED),
                   "IMAGE_FILE_LOCAL_SYMS_STRIPPED is deprecated and should be zero.")
      m4 == PushIf(m3, has_flag(c, IMAGE_FILE_AGGRESSIVE_WS_TRIM),
                   "IMAGE_FILE_AGGRESSIVE_WS_TRIM is deprecated and must be zero.")
      m5 == PushIf(m4, has_flag(c, IMAGE_FILE_BYTES_REVERSED_LO),
                   "IMAGE_FILE_BYTES_REVERSED_LO is deprecated and should be zero.")
      m6 == PushIf(m5, has_flag(c, IMAGE_FILE_BYTES_REVERSED_HI),
                   "IMAGE_FILE_BYTES_REVERSED_HI is deprecated and should be zero.")
  IN  m6

\* characteristic.rs 111-139: error_messages when every rule has run
ValidateMessages(c, image) == DeprecatedRules(ContextRules(c, image), c)

\* error_messages.join("\n")
RECURSIVE Join(_, _)
Join(v, sep) ==
  IF Len(v) = 0 THEN ""
  ELSE IF Len(v) = 1 THEN v[1]
  ELSE v[1] \o sep \o Join(Tail(v), sep)

\* characteristic.rs 140-144
ValidateResult(msgs) ==
  IF Len(msgs) = 0
    THEN [tag |-> "Ok", msg |-> "", bool |-> FALSE]
    ELSE [tag |-> "Malformed", msg |-> Join(msgs, "\n"), bool |-> FALSE]

BoolResult(b) == [tag |-> "bool", msg |-> "", bool |-> b]

-----------------------------------------------------------------------------
(* SpecFlags: the characteristics operations on every u16 *)

InitFlags ==
  /\ bytes = <<>>
  /\ ParseIdle
  /\ characteristics \in 0 .. U16_MAX
  /\ flag_op = "none"
  /\ flag_arg = 0
  /\ is_image = FALSE
  /\ error_messages = <<>>
  /\ flag_result = NoFlagResult

CallIsDll ==
  /\ flag_op = "none"
  /\ flag_op' = "is_dll"
  /\ flag_result' = BoolResult(is_dll(characteristics))
  /\ UNCHANGED <<characteristics, flag_arg, is_image, error_messages>>
  /\ UNCHANGED parseVars

CallIsExe ==
  /\ flag_op = "none"
  /\ flag_op' = "is_exe"
  /\ flag_result' = BoolResult(is_exe(characteristics))
  /\ UNCHANGED <<characteristics, flag_arg, is_image, error_messages>>
  /\ UNCHANGED parseVars

CallHasFlag(flag) ==
  /\ flag_op = "none"
  /\ flag_op' = "has_flag"
  /\ flag_arg' = flag
  /\ flag_result' = BoolResult(has_flag(characteristics, flag))
  /\ UNCHANGED <<characteristics, is_image, error_messages>>
  /\ UNCHANGED parseVars

CallValidate(image) ==
  /\ flag_op = "none"
  /\ flag_op' = "validate"
  /\ is_image' = image
  /\ error_messages' = ValidateMessages(characteristics, image)
  /\ flag_result' = ValidateResult(error_messages')
  /\ UNCHANGED <<characteristics, flag_arg>>
  /\ UNCHANGED parseVars

NextFlags ==
  \/ CallIsDll
  \/ CallIsExe
  \/ \E flag \in FlagConstants : CallHasFlag(flag)
  \/ \E image \in BOOLEAN : CallValidate(image)

SpecFlags == InitFlags /\ [][NextFlags]_vars

-----------------------------------------------------------------------------
(* Properties of the parsers, checked under Spec *)

\* the byte at position p (from 0) of the buffer
B(p) == bytes[p + 1]

U16At(p) == B(p) + 256 * B(p + 1)
U32At(p) == B(p) + 256 * B(p + 1) + 65536 * B(p + 2) + 16777216 * B(p + 3)

\* offsets and names of the COFF fields relative to the start of the header
CoffOffsets == <<0, 4, 6, 8, 12, 16, 20, 22>>
CoffEnds == <<4, 6, 8, 12, 16, 20, 22, 24>>
CoffWhat ==
  <<"COFF signature", "COFF machine", "COFF number of sections", "COFF time date stamp",
    "COFF pointer to symbol table", "COFF number of symbol", "COFF size of optional header",
    "COFF characteristics">>

IsCoffRead(r) == \E i \in 1 .. 8 : r.what = CoffWhat[i]
CoffReads == SelectSeq(reads, IsCoffRead)

\* CoffHeader::parse has been entered
InCoff == entry \in {"CoffHeader", "Header"} /\ (pc = "coff" \/ CoffReads # <<>>)

AvailableAtStart == IF start <= Len(bytes) THEN Len(bytes) - start ELSE 0

\* C4: with at least 24 bytes available at the starting offset s, CoffHeader::parse
\* succeeds, reads the eight fields little-endian at s+0, s+4, s+6, s+8, s+12, s+16,
\* s+20, s+22 with widths 4, 2, 2, 4, 4, 4, 2, 2, and leaves the offset at s+24.
C4_CoffParseDecodes ==
  (InCoff /\ AvailableAtStart >= SIZEOF_COFF_HEADER) =>
    /\ \A i \in 1 .. Len(CoffReads) :
         /\ i <= 8
         /\ CoffReads[i].what = CoffWhat[i]
         /\ CoffReads[i].at = start + CoffOffsets[i]
         /\ CoffReads[i].width = CoffEnds[i] - CoffOffsets[i]
    /\ pc = "done" => field = 8
    /\ (pc = "done" /\ entry = "CoffHeader") => result = Ok(coff_header)
    /\ field = 8 =>
         /\ offset = start + 24
         /\ Len(CoffReads) = 8
         /\ coff_header =
              [signature               |-> U32At(start),
               machine                 |-> U16At(start + 4),
               number_of_sections      |-> U16At(start + 6),
               time_date_stamp         |-> U32At(start + 8),
               pointer_to_symbol_table |-> U32At(start + 12),
               number_of_symbol_table  |-> U32At(start + 16),
               size_of_optional_header |-> U16At(start + 20),
               characteristics         |-> U16At(start + 22)]

\* C4 witness: CoffHeader::parse returned Ok at s = 72 on a buffer ending at s + 24
C4_Witness ==
  /\ entry = "CoffHeader"
  /\ pc = "done"
  /\ result.tag = "Ok"
  /\ start = 72
  /\ Len(bytes) = start + 24
  /\ offset = 96
  /\ coff_header.time_date_stamp > 65536

\* the first COFF field whose bytes do not fit behind `start`
FirstUnfit == CHOOSE k \in 1 .. 8 : /\ CoffEnds[k] > AvailableAtStart
                                    /\ \A j \in 1 .. k - 1 : CoffEnds[j] <= AvailableAtStart

\* C5: with fewer than 24 bytes available at s, CoffHeader::parse returns one Malformed
\* error naming the first field that does not fit and the offset where that field
\* starts; no later field is read and no CoffHeader value is returned.
C5_CoffParseFailFast ==
  (InCoff /\ AvailableAtStart < SIZEOF_COFF_HEADER) =>
    /\ field < FirstUnfit
    /\ Len(CoffReads) <= FirstUnfit
    /\ \A r \in 1 .. Len(reads) : reads[r].what # "optional header"
    /\ pc = "done" =>
         /\ result.tag = "Malformed"
         /\ result.value = <<>>
         /\ result.msg = "cannot parse " \o CoffWhat[FirstUnfit] \o " (offset "
                            \o LowerHex(start + CoffOffsets[FirstUnfit]) \o ")"
         /\ Len(CoffReads) = FirstUnfit
         /\ CoffReads[FirstUnfit].at = start + CoffOffsets[FirstUnfit]
         /\ offset = start + CoffOffsets[FirstUnfit]
         /\ optional_header = <<>>
    /\ (pc = "done" /\ start = 72 /\ Len(bytes) = 80) =>
         result.msg = "cannot parse COFF time date stamp (offset 0x50)"
    /\ (pc = "done" /\ start = 64 /\ Len(bytes) = 87) =>
         result.msg = "cannot parse COFF characteristics (offset 0x56)"

\* C5 witness: Header::parse stopped at the fourth COFF field of a truncated header
C5_Witness ==
  /\ entry = "Header"
  /\ pc = "done"
  /\ start = 64
  /\ Len(bytes) = 75
  /\ result.msg = "cannot parse COFF time date stamp (offset 0x48)"
  /\ Len(CoffReads) = 4

\* Header::parse returned
HeaderOver == entry = "Header" /\ pc = "done"

\* C6 as stated: when Header::parse succeeds, optional_header is present iff
\* size_of_optional_header > 0; with size_of_optional_header = 0 no byte at or beyond
\* pe_pointer + 24 is read.
C6_Original ==
  /\ (HeaderOver /\ result.tag = "Ok") =>
       ((result.value[1].optional_header # <<>>) <=> (U16At(U32At(60) + 20) > 0))
  /\ (HeaderOver /\ field = 8 /\ U16At(U32At(60) + 20) = 0) =>
       /\ result.tag = "Ok"
       /\ \A r \in 1 .. Len(reads) : reads[r].at + reads[r].width <= U32At(60) + 24

\* C6 amended: when Header::parse succeeds, optional_header is present iff
\* size_of_optional_header > 0; with size_of_optional_header = 0 the optional-header
\* parser is not called and, the PE pointer at 0x3C..0x3F aside, no byte at or beyond
\* pe_pointer + 24 is read; a buffer ending there parses with no optional header.
C6_OptionalIffSize ==
  /\ (HeaderOver /\ result.tag = "Ok") =>
       LET h == result.value[1] IN
         /\ (h.optional_header # <<>>) <=> (U16At(U32At(60) + 20) > 0)
         /\ h.coff_header.size_of_optional_header = U16At(U32At(60) + 20)
         /\ h.optional_header = optional_header
  /\ (HeaderOver /\ field = 8 /\ U16At(U32At(60) + 20) = 0) =>
       /\ result.tag = "Ok"
       /\ result.value[1].optional_header = <<>>
       /\ reads[Len(reads)].what = "COFF characteristics"
       /\ \A r \in 1 .. Len(reads) :
            /\ reads[r].what # "optional header"
            /\ reads[r].what # "PE header pointer" =>
                 reads[r].at + reads[r].width <= U32At(60) + 24
            /\ reads[r].what = "PE header pointer" =>
                 (reads[r].at + reads[r].width <= U32At(60) + 24 <=> U32At(60) >= 40)

\* C6 witness: the buffer ends with the COFF header and Header::parse returned Ok
C6_Witness ==
  /\ HeaderOver
  /\ result.tag = "Ok"
  /\ Len(bytes) = dos_header.pe_pointer + 24
  /\ dos_header.pe_pointer = 68
  /\ result.value[1].optional_header = <<>>

\* C7: a buffer shorter than 0x40 makes DosHeader::parse fail, naming the PE header
\* pointer at offset 0x3c (the DOS signature at offset 0 when shorter than 2 bytes);
\* Header::parse returns the same error, no value, and never starts the COFF parse.
C7_TruncatedDosHeader ==
  (entry \in {"DosHeader", "Header"} /\ Len(bytes) < 64) =>
    /\ pc \notin {"dos_return", "coff"}
    /\ CoffReads = <<>>
    /\ field = 0
    /\ pc = "done" =>
         /\ result =
              [tag   |-> "Malformed",
               msg   |-> IF Len(bytes) >= 2
                           THEN "cannot parse PE header pointer (offset 0x3c)"
                           ELSE "cannot parse DOS signature (offset 0x0)",
               value |-> <<>>]
         /\ Len(reads) = IF Len(bytes) >= 2 THEN 2 ELSE 1

\* C7 witness: Header::parse on a 60-byte buffer returned the PE pointer error
C7_Witness ==
  /\ HeaderOver
  /\ Len(bytes) = 60
  /\ result.msg = "cannot parse PE header pointer (offset 0x3c)"

C10_MagicNotChecked ==
  /\ (entry = "DosHeader" /\ pc = "done") =>
       /\ result.tag = "Ok" <=> Len(bytes) >= 64
       /\ result.tag = "Ok" => result.value[1].signature = U16At(0)
  /\ (entry = "CoffHeader" /\ pc = "done") =>
       /\ result.tag = "Ok" <=> AvailableAtStart >= 24
       /\ result.tag = "Ok" => result.value[1].signature = U32At(start)
  /\ HeaderOver =>
       LET fits == Len(bytes) >= 64 /\ U32At(60) <= Len(bytes) - 24 IN
         /\ result.tag \in {"Ok", "OptionalHeaderError"} <=> fits
         /\ (fits /\ U16At(U32At(60) + 20) = 0) => result.tag = "Ok"
         /\ result.tag = "OptionalHeaderError" => U16At(U32At(60) + 20) > 0
         /\ result.tag = "Ok" =>
              /\ result.value[1].dos_header.signature = U16At(0)
              /\ result.value[1].coff_header.signature = U32At(U32At(60))

\* C10 witness: Header::parse returned Ok although neither magic number is present
C10_Witness ==
  /\ HeaderOver
  /\ result.tag = "Ok"
  /\ result.value[1].dos_header.signature # DOS_MAGIC
  /\ result.value[1].coff_header.signature # COFF_MAGIC

-----------------------------------------------------------------------------
(* Properties of the characteristics operations, checked under SpecFlags *)

\* bit k of c is set
Bit(c, k) == (c \div (2 ^ k)) % 2 = 1

\* some deprecated bit (0x0004, 0x0008, 0x0010, 0x0080, 0x8000) is set
AnyDeprecated(c) == \E k \in {2, 3, 4, 7, 15} : Bit(c, k)

Validated(image) == flag_op = "validate" /\ is_image = image

\* C1 as stated: validate(c, is_image = true) fails iff bit 0x0002 is clear.
C1_Original ==
  Validated(TRUE) => (flag_result.tag = "Malformed" <=> ~Bit(characteristics, 1))

\* C1 amended: validate(c, is_image = true) fails iff bit 0x0002 is clear or one of
\* the deprecated bits 0x0004, 0x0008, 0x0010, 0x0080, 0x8000 is set.
C1_ValidateImage ==
  Validated(TRUE) =>
    /\ flag_result.tag \in {"Ok", "Malformed"}
    /\ flag_result.tag = "Malformed" <=>
         (~Bit(characteristics, 1) \/ AnyDeprecated(characteristics))

\* C1 witness: an image with the executable bit and a deprecated bit set is refused
C1_Witness ==
  /\ Validated(TRUE)
  /\ characteristics = 6
  /\ flag_result.tag = "Malformed"

\* c with the bits validate(_, false) never looks at cleared
RelevantBits(c) ==
  LET bit(k) == IF Bit(c, k) THEN 2 ^ k ELSE 0
  IN  bit(0) + bit(1) + bit(2) + bit(3) + bit(4) + bit(7) + bit(15)

\* C2: validate(c, is_image = false) fails iff one of the bits 0x0001, 0x0002, 0x0004,
\* 0x0008, 0x0010, 0x0080, 0x8000 is set; the other nine bits never change the outcome.
C2_ValidateObject ==
  Validated(FALSE) =>
    /\ flag_result.tag \in {"Ok", "Malformed"}
    /\ flag_result.tag = "Malformed" <=>
         (\E k \in {0, 1, 2, 3, 4, 7, 15} : Bit(characteristics, k))
    /\ flag_result = ValidateResult(ValidateMessages(RelevantBits(characteristics), FALSE))

\* C2 witness: an object file with only the nine ignored bits set passes
C2_Witness ==
  /\ Validated(FALSE)
  /\ characteristics = 32608
  /\ flag_result.tag = "Ok"

\* the rules in program order: [applies in this context, violated by c, message]
Rules(c, image) ==
  << [on |-> image,  hit |-> ~Bit(c, 1),
      msg |-> "If IMAGE_FILE_EXECUTABLE_IMAGE is not set, it indicates a linker error."],
     [on |-> ~image, hit |-> Bit(c, 0), msg |-> "IMAGE_FILE_RELOCS_STRIPPED is image only."],
     [on |-> ~image, hit |-> Bit(c, 1), msg |-> "IMAGE_FILE_EXECUTABLE_IMAGE is image only."],
     [on |-> TRUE,   hit |-> Bit(c, 2),
      msg |-> "IMAGE_FILE_LINE_NUMS_STRIPPED is deprecated and should be zero."],
     [on |-> TRUE,   hit |-> Bit(c, 3),
      msg |-> "IMAGE_FILE_LOCAL_SYMS_STRIPPED is deprecated and should be zero."],
     [on |-> TRUE,   hit |-> Bit(c, 4),
      msg |-> "IMAGE_FILE_AGGRESSIVE_WS_TRIM is deprecated and must be zero."],
     [on |-> TRUE,   hit |-> Bit(c, 7),
      msg |-> "IMAGE_FILE_BYTES_REVERSED_LO is deprecated and should be zero."],
     [on |-> TRUE,   hit |-> Bit(c, 15),
      msg |-> "IMAGE_FILE_BYTES_REVERSED_HI is deprecated and should be zero."] >>

Violated(r) == r.on /\ r.hit
Message(r) == r.msg

\* the messages of the violated rules, in rule order
RECURSIVE MessagesOf(_)
MessagesOf(rs) ==
  IF rs = <<>> THEN <<>>
  ELSE (IF Violated(Head(rs)) THEN <<Message(Head(rs))>> ELSE <<>>) \o MessagesOf(Tail(rs))

\* C3: validate runs every rule: the error holds one line per violated rule, in rule
\* order, joined by newlines; 0x0005 with is_image = false gives the two lines for
\* 0x0001 and 0x0004.
C3_ValidateCollectsAll ==
  flag_op = "validate" =>
    /\ error_messages = MessagesOf(Rules(characteristics, is_image))
    /\ Len(error_messages) =
         Cardinality({i \in 1 .. 8 : Violated(Rules(characteristics, is_image)[i])})
    /\ flag_result.tag = "Malformed" <=> Len(error_messages) > 0
    /\ flag_result.msg = Join(error_messages, "\n")
    /\ (characteristics = 5 /\ ~is_image) =>
         flag_result =
           [tag |-> "Malformed",
            msg |-> "IMAGE_FILE_RELOCS_STRIPPED is image only.\nIMAGE_FILE_LINE_NUMS_STRIPPED is deprecated and should be zero.",
            bool |-> FALSE]
    /\ (characteristics = 32896 /\ is_image) =>
         flag_result.msg =
           "If IMAGE_FILE_EXECUTABLE_IMAGE is not set, it indicates a linker error.\nIMAGE_FILE_BYTES_REVERSED_LO is deprecated and should be zero.\nIMAGE_FILE_BYTES_REVERSED_HI is deprecated and should be zero."

\* C3 witness: 0x0005 as an object file yields two lines
C3_Witness ==
  /\ Validated(FALSE)
  /\ characteristics = 5
  /\ Len(error_messages) = 2
  /\ flag_result.tag = "Malformed"

\* C9: is_dll(c) iff bit 0x2000 is set, is_exe(c) iff bit 0x0002 is set, and
\* has_flag(c, flag) iff the flag's bit is set, for every u16 c and every flag constant.
C9_FlagTests ==
  /\ flag_op = "is_dll" => (flag_result.bool <=> Bit(characteristics, 13))
  /\ flag_op = "is_exe" => (flag_result.bool <=> Bit(characteristics, 1))
  /\ flag_op = "has_flag" =>
       \E k \in 0 .. 15 :
         /\ flag_arg = 2 ^ k
         /\ flag_result.bool <=> Bit(characteristics, k)
  /\ flag_op \in {"is_dll", "is_exe", "has_flag"} => flag_result.tag = "bool"

\* C9 witness: is_dll(0xFFFF) answered true
C9_Witness ==
  /\ flag_op = "is_dll"
  /\ characteristics = 65535
  /\ flag_result.bool

====
